---- MODULE Spec2Model ----
(***************************************************************************)
(* Model of the planner-mediated coordination loop of src/src/chat.py      *)
(* (DevelopmentChat) and of TestingAgent.execute_tests of                  *)
(* src/src/agents/tester.py.                                               *)
(*                                                                         *)
(* Coroutines are modelled at the granularity asyncio gives them: one      *)
(* action runs the code between two awaits.  The awaited collaborators     *)
(* (the planner, the agents of the pool, the stream, input()) answer       *)
(* nondeterministically: they return a value of a small set or raise.      *)
(* "Raise" always means an instance of Exception, which is what the        *)
(* handlers of the source catch.                                           *)
(***************************************************************************)
EXTENDS Integers, Sequences, FiniteSets, TLC

(***************************************************************************)
(* Bounds of the model.                                                    *)
(***************************************************************************)
MaxPlanCalls == 3
MaxSteps == 2
MaxHistory == 2
MaxTurns == 2
MaxErrors == 2

(***************************************************************************)
(* Values.                                                                 *)
(***************************************************************************)
\* Optional[...]: None, or a value.
None == [some |-> FALSE, val |-> <<>>]
Some(v) == [some |-> TRUE, val |-> v]

\* The callers that may have a _plan_and_execute invocation running on the
\* one DevelopmentChat: the session loop, and programmatic callers.
Callers == {"chat", "api1", "api2"}

\* self.agent_pool: the role names that are keys of the pool.
agent_pool == {"coder", "executor", "debugger", "tester"}

\* Role names a Plan Step may carry: roles of the pool and one that is not.
StepAgents == {"coder", "tester", "reviewer"}
TaskTexts == {"write add()"}
Phases == {"coding", "testing"}
Outputs == {"code v1", "code v2"}
Errors == {"timeout", "rate limit"}

\* step = {'agent': ..., 'task': ...}
Steps == [agent : StepAgents, task : TaskTexts]

RECURSIVE SeqsUpTo(_, _)
SeqsUpTo(S, n) ==
    IF n = 0 THEN {<<>>}
    ELSE LET shorter == SeqsUpTo(S, n - 1)
         IN  shorter \cup {Append(s, x) : s \in {t \in shorter : Len(t) = n - 1}, x \in S}

\* What planner.plan_next_steps may answer: completion, or a batch of steps
\* with the label of the next phase.
CompleteResult == [is_complete |-> TRUE, next_steps |-> <<>>, next_phase |-> "planning"]
NoPlanResult == [is_complete |-> FALSE, next_steps |-> <<>>, next_phase |-> "planning"]
BatchResults(room) ==
    [is_complete : {FALSE},
     next_steps : {s \in SeqsUpTo(Steps, MaxSteps) : Len(s) <= room},
     next_phase : Phases]

\* What stream.get_final_response may answer.
Responses ==
    [output : Outputs, message : {<<"ok">>}, suggested_next_steps : {Some(<<"review">>)}]

\* Exceptions.
NoExc == [type |-> "none", arg |-> "none"]
KeyError(key) == [type |-> "KeyError", arg |-> key]
ModelError(e) == [type |-> "Exception", arg |-> e]
EOFError == [type |-> "EOFError", arg |-> "stdin"]
\* str(e)
Str(e) == e.arg

(***************************************************************************)
(* TaskResult and _execute_agent_task.                                     *)
(***************************************************************************)
TaskResult(success, output, message, next_steps) ==
    [success |-> success, output |-> output, message |-> message,
     next_steps |-> next_steps]

\* The agent lookup of _execute_agent_task, which is made before the try.
LookupRaises(agent_name) == agent_name \notin agent_pool

\* The return of the try block.
SuccessResult(result) ==
    TaskResult(TRUE, Some(result.output), result.message, result.suggested_next_steps)

\* Variant of FailureResult: the message leaves the error out.
FailureResultNoError(agent_name, e) ==
    TaskResult(FALSE, None, <<"Error during ", agent_name, " task execution: ">>, None)

\* The return of the except block.
FailureResult(agent_name, e) ==
    TaskResult(FALSE, None,
               <<"Error during ", agent_name, " task execution: ", Str(e)>>,
               None)

(***************************************************************************)
(* Project State.                                                          *)
(***************************************************************************)
FreshState ==
    [status |-> "in_progress", current_phase |-> "planning",
     results |-> <<>>, context |-> <<>>, history |-> <<>>]
\* A caller that has no invocation running holds no Project State.
NoState ==
    [status |-> "none", current_phase |-> "none",
     results |-> <<>>, context |-> <<>>, history |-> <<>>]

\* Variant of SetResult: an entry that exists is kept (setdefault).
KeepFirstResult(results, agent_name, result) ==
    [a \in DOMAIN results \cup {agent_name} |->
        IF a \in DOMAIN results THEN results[a] ELSE result]

\* project_state['results'][agent_name] = result
SetResult(results, agent_name, result) ==
    [a \in DOMAIN results \cup {agent_name} |->
        IF a = agent_name THEN result ELSE results[a]]

HistoryRecord(phase, agent_name, agent_task, result) ==
    [phase |-> phase, agent |-> agent_name, task |-> agent_task, result |-> result]

\* Variant of AppendHistory: the record is inserted at the front.
PrependHistory(history, rec) == <<rec>> \o history

\* project_state['history'].append(...)
AppendHistory(history, rec) == Append(history, rec)

\* Variant of RecordResult: a failed result is dropped (rolled back).
RecordOnlySuccess(ps, step, result) ==
    IF result.success
    THEN [ps EXCEPT
            !.results = SetResult(ps.results, step.agent, result),
            !.history = AppendHistory(ps.history,
                            HistoryRecord(ps.current_phase, step.agent, step.task, result))]
    ELSE ps

\* Variant of RecordResult: the output of the step is also put in context.
RecordResultAndContext(ps, step, result) ==
    [ps EXCEPT
        !.results = SetResult(ps.results, step.agent, result),
        !.context = SetResult(ps.context, step.agent, result.output),
        !.history = AppendHistory(ps.history,
                        HistoryRecord(ps.current_phase, step.agent, step.task, result))]

\* The state update made after a step's invocation has returned.
RecordResult(ps, step, result) ==
    [ps EXCEPT
        !.results = SetResult(ps.results, step.agent, result),
        !.history = AppendHistory(ps.history,
                        HistoryRecord(ps.current_phase, step.agent, step.task, result))]

\* Variant of BreaksBatch: the for loop has no break.
NeverBreaks(result) == FALSE

\* if not result.success: break
BreaksBatch(result) == ~result.success

\* Variant of MarkCompleted: the loop is left without setting the status.
MarkNothing(ps) == ps

\* project_state['status'] = 'completed'
MarkCompleted(ps) == [ps EXCEPT !.status = "completed"]

\* Variant of UpdatePhase: the phase is updated only after a batch that ran
\* to its end without a failure.
UpdatePhaseUnlessFailed(ps, pr) ==
    IF ps.history # <<>> /\ ~ps.history[Len(ps.history)].result.success
    THEN ps
    ELSE [ps EXCEPT !.current_phase = pr.next_phase]

\* project_state['current_phase'] = plan_result.next_phase
UpdatePhase(ps, pr) == [ps EXCEPT !.current_phase = pr.next_phase]

\* while project_state['status'] == 'in_progress': where control goes.
WhileTest(ps) == IF ps.status = "in_progress" THEN "loop" ELSE "returned"

\* Variant of NextIndex: every other step is skipped.
SkipIndex(idx) == idx + 2

\* The for loop's step after the one at index idx.
NextIndex(idx) == idx + 1

VARIABLES
    \* _plan_and_execute, per caller
    pc,             \* where the invocation is
    task,           \* its task argument
    project_state,  \* its project_state
    plan_result,    \* its plan_result
    step_idx,       \* index in plan_result.next_steps of the for loop's step
    exc,            \* the exception it raised to its caller
    \* what the stub planner and the stub agent pool record, per caller
    invocation,     \* number of _plan_and_execute invocations started
    planCalls,      \* number of plan_next_steps calls of the invocation
    completeAt,     \* the planning call that reported completion, or 0
    calls,          \* the agent invocations of the invocation, in order
    \* chat_loop
    chat_pc,
    user_input,
    printed,        \* what the last print showed
    chat_exc,       \* the exception that left chat_loop
    \* TestingAgent.execute_tests
    t_pc,
    t_code,
    test_results,
    hook_calls,     \* the arguments of the _coordinate_with_debugger calls
    t_returned

planVars == <<pc, task, project_state, plan_result, step_idx, exc,
              invocation, planCalls, completeAt, calls>>
chatVars == <<chat_pc, user_input, printed, chat_exc>>
testerVars == <<t_pc, t_code, test_results, hook_calls, t_returned>>
vars == <<planVars, chatVars, testerVars>>


(***************************************************************************)
(* Ghost records of the stubs.                                             *)
(***************************************************************************)
\* One agent.execute_task call, as the stub agent pool records it: the
\* planning call whose batch it belongs to, the step's index in the batch,
\* the step, how the invocation ended and the error it raised.
CallRecord(batch, idx, step) ==
    [batch |-> batch, idx |-> idx, agent |-> step.agent, task |-> step.task,
     outcome |-> "pending", error |-> "none"]

SetOutcome(cs, outcome, error) ==
    [cs EXCEPT ![Len(cs)].outcome = outcome, ![Len(cs)].error = error]

(***************************************************************************)
(* Initial state: a DevelopmentChat has been constructed, nothing runs.    *)
(***************************************************************************)
NoInput == <<>>
NoTestResults == [success |-> TRUE, errors |-> None, message |-> "none"]

Init ==
    /\ pc = [i \in Callers |-> "idle"]
    /\ task = [i \in Callers |-> NoInput]
    /\ project_state = [i \in Callers |-> NoState]
    /\ plan_result = [i \in Callers |-> NoPlanResult]
    /\ step_idx = [i \in Callers |-> 0]
    /\ exc = [i \in Callers |-> NoExc]
    /\ invocation = [i \in Callers |-> 0]
    /\ planCalls = [i \in Callers |-> 0]
    /\ completeAt = [i \in Callers |-> 0]
    /\ calls = [i \in Callers |-> <<>>]
    /\ chat_pc = "prompt"
    /\ user_input = NoInput
    /\ printed = "welcome"
    /\ chat_exc = NoExc
    /\ t_pc = "idle"
    /\ t_code = "none"
    /\ test_results = NoTestResults
    /\ hook_calls = <<>>
    /\ t_returned = NoTestResults

(***************************************************************************)
(* _plan_and_execute(task), run for caller i.                              *)
(***************************************************************************)
\* The call: project_state is created, the while condition is tested.
\* Variant of Enter: the Project State is kept on the DevelopmentChat, so
\* an invocation that begins while another is awaited takes up its state.
EnterSharedState(i, t) ==
    LET others == {k \in Callers \ {i} : pc[k] # "idle"}
        ps == IF others = {} THEN FreshState
              ELSE project_state[CHOOSE k \in others : TRUE]
    IN  /\ pc[i] = "idle"
        /\ pc' = [pc EXCEPT ![i] = WhileTest(ps)]
        /\ task' = [task EXCEPT ![i] = t]
        /\ project_state' = [project_state EXCEPT ![i] = ps]
        /\ plan_result' = [plan_result EXCEPT ![i] = NoPlanResult]
        /\ step_idx' = [step_idx EXCEPT ![i] = 0]
        /\ exc' = [exc EXCEPT ![i] = NoExc]
        /\ invocation' = [invocation EXCEPT ![i] = @ + 1]
        /\ planCalls' = [planCalls EXCEPT ![i] = 0]
        /\ completeAt' = [completeAt EXCEPT ![i] = 0]
        /\ calls' = [calls EXCEPT ![i] = <<>>]

Enter(i, t) ==
    /\ pc[i] = "idle"
    /\ pc' = [pc EXCEPT ![i] = WhileTest(FreshState)]
    /\ task' = [task EXCEPT ![i] = t]
    /\ project_state' = [project_state EXCEPT ![i] = FreshState]
    /\ plan_result' = [plan_result EXCEPT ![i] = NoPlanResult]
    /\ step_idx' = [step_idx EXCEPT ![i] = 0]
    /\ exc' = [exc EXCEPT ![i] = NoExc]
    /\ invocation' = [invocation EXCEPT ![i] = @ + 1]
    /\ planCalls' = [planCalls EXCEPT ![i] = 0]
    /\ completeAt' = [completeAt EXCEPT ![i] = 0]
    /\ calls' = [calls EXCEPT ![i] = <<>>]

\* The caller has taken the return value or the exception: the frame is gone.
Leave(i) ==
    /\ pc' = [pc EXCEPT ![i] = "idle"]
    /\ plan_result' = [plan_result EXCEPT ![i] = NoPlanResult]
    /\ step_idx' = [step_idx EXCEPT ![i] = 0]
    /\ exc' = [exc EXCEPT ![i] = NoExc]
    /\ planCalls' = [planCalls EXCEPT ![i] = 0]
    /\ completeAt' = [completeAt EXCEPT ![i] = 0]
    /\ calls' = [calls EXCEPT ![i] = <<>>]
    /\ UNCHANGED <<task, invocation>>

\* The batch is over (its for loop ended or broke): the phase is updated
\* and the while condition is tested.
EndBatch(i, ps, pr, idx, cs) ==
    LET ps2 == UpdatePhase(ps, pr)
    IN  /\ project_state' = [project_state EXCEPT ![i] = ps2]
        /\ pc' = [pc EXCEPT ![i] = WhileTest(ps2)]
        /\ step_idx' = [step_idx EXCEPT ![i] = idx]
        /\ calls' = [calls EXCEPT ![i] = cs]
        /\ exc' = exc

\* The for loop at the step of index idx: the step is handed to
\* _execute_agent_task, which looks the agent up and calls its execute_task.
ForLoop(i, ps, pr, idx, cs) ==
    IF idx > Len(pr.next_steps)
    THEN EndBatch(i, ps, pr, idx, cs)
    ELSE LET step == pr.next_steps[idx]
         IN  /\ project_state' = [project_state EXCEPT ![i] = ps]
             /\ step_idx' = [step_idx EXCEPT ![i] = idx]
             /\ IF LookupRaises(step.agent)
                THEN /\ pc' = [pc EXCEPT ![i] = "raised"]
                     /\ exc' = [exc EXCEPT ![i] = KeyError(step.agent)]
                     /\ calls' = [calls EXCEPT ![i] = cs]
                ELSE /\ pc' = [pc EXCEPT ![i] = "await_exec"]
                     /\ exc' = exc
                     /\ calls' = [calls EXCEPT ![i] =
                                    Append(cs, CallRecord(planCalls[i], idx, step))]

\* _execute_agent_task has returned result for the current step.
AfterResult(i, result, outcome, error) ==
    LET pr == plan_result[i]
        step == pr.next_steps[step_idx[i]]
        ps == RecordResult(project_state[i], step, result)
        cs == SetOutcome(calls[i], outcome, error)
    IN  IF BreaksBatch(result)
        THEN EndBatch(i, ps, pr, step_idx[i], cs)
        ELSE ForLoop(i, ps, pr, NextIndex(step_idx[i]), cs)

\* await self.planner.plan_next_steps(task=task, current_state=project_state)
CallPlanner(i) ==
    /\ pc[i] = "loop"
    /\ planCalls[i] < MaxPlanCalls
    /\ pc' = [pc EXCEPT ![i] = "await_plan"]
    /\ planCalls' = [planCalls EXCEPT ![i] = @ + 1]
    /\ UNCHANGED <<task, project_state, plan_result, step_idx, exc, invocation,
                   completeAt, calls>>

\* The planner reports completion: status is set, the loop is left and the
\* state is returned.
PlannerCompletes(i) ==
    /\ pc[i] = "await_plan"
    /\ plan_result' = [plan_result EXCEPT ![i] = CompleteResult]
    /\ project_state' = [project_state EXCEPT ![i] = MarkCompleted(@)]
    /\ pc' = [pc EXCEPT ![i] = "returned"]
    /\ completeAt' = [completeAt EXCEPT ![i] = planCalls[i]]
    /\ UNCHANGED <<task, step_idx, exc, invocation, planCalls, calls>>

\* The planner answers with a batch of steps: the for loop starts.
PlannerPlans(i) ==
    /\ pc[i] = "await_plan"
    /\ \E pr \in BatchResults(MaxHistory - Len(project_state[i].history)) :
          /\ plan_result' = [plan_result EXCEPT ![i] = pr]
          /\ ForLoop(i, project_state[i], pr, 1, calls[i])
    /\ UNCHANGED <<task, invocation, planCalls, completeAt>>

\* The planning call raises: nothing in _plan_and_execute catches it.
PlannerRaises(i) ==
    /\ pc[i] = "await_plan"
    /\ \E e \in Errors : exc' = [exc EXCEPT ![i] = ModelError(e)]
    /\ pc' = [pc EXCEPT ![i] = "raised"]
    /\ UNCHANGED <<task, project_state, plan_result, step_idx, invocation,
                   planCalls, completeAt, calls>>

\* stream = await agent.execute_task(...) returns the stream.
ExecuteTaskReturns(i) ==
    /\ pc[i] = "await_exec"
    /\ pc' = [pc EXCEPT ![i] = "await_final"]
    /\ UNCHANGED <<task, project_state, plan_result, step_idx, exc, invocation,
                   planCalls, completeAt, calls>>

\* agent.execute_task raises inside the try.
ExecuteTaskRaises(i) ==
    /\ pc[i] = "await_exec"
    /\ \E e \in Errors :
          AfterResult(i,
              FailureResult(plan_result[i].next_steps[step_idx[i]].agent, ModelError(e)),
              "raised_execute", e)
    /\ UNCHANGED <<task, plan_result, invocation, planCalls, completeAt>>

\* result = await stream.get_final_response() returns.
FinalResponseReturns(i) ==
    /\ pc[i] = "await_final"
    /\ \E r \in Responses : AfterResult(i, SuccessResult(r), "returned", "none")
    /\ UNCHANGED <<task, plan_result, invocation, planCalls, completeAt>>

\* stream.get_final_response raises inside the try.
FinalResponseRaises(i) ==
    /\ pc[i] = "await_final"
    /\ \E e \in Errors :
          AfterResult(i,
              FailureResult(plan_result[i].next_steps[step_idx[i]].agent, ModelError(e)),
              "raised_final", e)
    /\ UNCHANGED <<task, plan_result, invocation, planCalls, completeAt>>

PlanAndExecute(i) ==
    \/ CallPlanner(i)
    \/ PlannerCompletes(i)
    \/ PlannerPlans(i)
    \/ PlannerRaises(i)
    \/ ExecuteTaskReturns(i)
    \/ ExecuteTaskRaises(i)
    \/ FinalResponseReturns(i)
    \/ FinalResponseRaises(i)

(***************************************************************************)
(* chat_loop.                                                              *)
(***************************************************************************)
\* Lines the user may type, as sequences of characters.
ExitLine == <<"e", "x", "i", "t">>
InputLines == {ExitLine, <<"E", "x", "i", "t">>, <<"a", "d", "d">>}

\* str.lower(), on the characters of InputLines.
LowerChar(c) == IF c = "E" THEN "e" ELSE c
Lower(line) == [k \in 1..Len(line) |-> LowerChar(line[k])]

\* if user_input.lower() == 'exit'
IsExit(line) == Lower(line) = ExitLine

\* Variant of InsideTry: the try block ends before format_final_response.
InsideTryWorkflowOnly(call) == call = "_plan_and_execute"

\* The calls of one turn that the try block of chat_loop encloses; input()
\* is called before it.
InsideTry(call) == call \in {"_plan_and_execute", "format_final_response"}

\* An exception e reaches chat_loop from the given call of the turn.
TurnException(call, e) ==
    IF InsideTry(call)
    THEN /\ printed' = "error"
         /\ chat_pc' = "prompt"
         /\ UNCHANGED <<user_input, chat_exc>>
    ELSE /\ chat_pc' = "raised"
         /\ chat_exc' = e
         /\ UNCHANGED <<user_input, printed>>

\* input() returns a line; exit ends the loop, anything else is a task.
ReadInput ==
    /\ chat_pc = "prompt"
    /\ \E line \in InputLines :
          /\ user_input' = line
          /\ IF IsExit(line)
             THEN /\ printed' = "goodbye"
                  /\ chat_pc' = "exited"
                  /\ UNCHANGED planVars
             ELSE /\ invocation["chat"] < MaxTurns
                  /\ printed' = "planning"
                  /\ chat_pc' = "running"
                  /\ Enter("chat", line)
    /\ UNCHANGED <<chat_exc, testerVars>>

\* input() raises (end of input).
InputRaises ==
    /\ chat_pc = "prompt"
    /\ TurnException("input", EOFError)
    /\ UNCHANGED <<planVars, testerVars>>

\* result = await self._plan_and_execute(user_input) returns; the planner
\* is asked to format it.
WorkflowReturns ==
    /\ chat_pc = "running"
    /\ pc["chat"] = "returned"
    /\ chat_pc' = "formatting"
    /\ Leave("chat")
    /\ UNCHANGED <<project_state, user_input, printed, chat_exc, testerVars>>

\* _plan_and_execute raises.
WorkflowRaises ==
    /\ chat_pc = "running"
    /\ pc["chat"] = "raised"
    /\ TurnException("_plan_and_execute", exc["chat"])
    /\ Leave("chat")
    /\ project_state' = [project_state EXCEPT !["chat"] = NoState]
    /\ UNCHANGED testerVars

\* planner.format_final_response returns; the results are printed.
FormatReturns ==
    /\ chat_pc = "formatting"
    /\ printed' = "results"
    /\ chat_pc' = "prompt"
    /\ project_state' = [project_state EXCEPT !["chat"] = NoState]
    /\ UNCHANGED <<pc, task, plan_result, step_idx, exc, invocation, planCalls,
                   completeAt, calls, user_input, chat_exc, testerVars>>

\* planner.format_final_response raises.
FormatRaises ==
    /\ chat_pc = "formatting"
    /\ \E e \in Errors : TurnException("format_final_response", ModelError(e))
    /\ project_state' = [project_state EXCEPT !["chat"] = NoState]
    /\ UNCHANGED <<pc, task, plan_result, step_idx, exc, invocation, planCalls,
                   completeAt, calls, testerVars>>

\* The invocation that chat_loop awaits takes a step.
WorkflowStep ==
    /\ chat_pc = "running"
    /\ PlanAndExecute("chat")
    /\ UNCHANGED <<chatVars, testerVars>>

Next ==
    \/ ReadInput
    \/ InputRaises
    \/ WorkflowStep
    \/ WorkflowReturns
    \/ WorkflowRaises
    \/ FormatReturns
    \/ FormatRaises

Spec == Init /\ [][Next]_vars

(***************************************************************************)
(* process_single_task, called by programmatic callers whose coroutines    *)
(* run on the same event loop as each other and as chat_loop: between two  *)
(* awaits of one invocation the others may take steps.                     *)
(***************************************************************************)
MaxConcPlanCalls == 2
MaxConcSteps == 1
MaxConcCalls == 2

ApiCallers == Callers \ {"chat"}
ApiTasks == {<<"s", "u", "b">>}

\* return await self._plan_and_execute(task): the call.  The programmatic
\* callers make MaxConcCalls calls between them, one after another or
\* while another is awaited.
ProcessSingleTask(i) ==
    /\ pc[i] = "idle"
    /\ invocation["api1"] + invocation["api2"] < MaxConcCalls
    /\ \E t \in ApiTasks : Enter(i, t)
    /\ UNCHANGED <<chatVars, testerVars>>

\* _plan_and_execute returns and process_single_task hands the state to
\* its caller.
ProcessSingleTaskReturns(i) ==
    /\ pc[i] = "returned"
    /\ Leave(i)
    /\ project_state' = [project_state EXCEPT ![i] = NoState]
    /\ UNCHANGED <<chatVars, testerVars>>

\* _plan_and_execute raises and so does process_single_task.
ProcessSingleTaskRaises(i) ==
    /\ pc[i] = "raised"
    /\ Leave(i)
    /\ project_state' = [project_state EXCEPT ![i] = NoState]
    /\ UNCHANGED <<chatVars, testerVars>>

\* The answers the planner and the agents give while invocations run side
\* by side: a number of planning calls and of steps per plan of its own,
\* one role, one phase label, one output and one error.
ConcAnswers(i) ==
    /\ planCalls[i] <= MaxConcPlanCalls
    /\ plan_result[i].next_phase \in {"planning", "coding"}
    /\ Len(plan_result[i].next_steps) <= MaxConcSteps
    /\ \A j \in DOMAIN plan_result[i].next_steps :
          plan_result[i].next_steps[j].agent = "coder"
    /\ exc[i].arg \in {"none", "timeout"} \cup StepAgents
    /\ \A j \in DOMAIN calls[i] : calls[i][j].error \in {"none", "timeout"}
    /\ \A j \in DOMAIN project_state[i].history :
          project_state[i].history[j].result.output \in {None, Some("code v1")}

\* The invocation of a programmatic caller takes a step.
ProcessSingleTaskStep(i) ==
    /\ PlanAndExecute(i)
    /\ ConcAnswers(i)'
    /\ UNCHANGED <<chatVars, testerVars>>

NextConc ==
    \/ \E i \in ApiCallers : ProcessSingleTask(i)
    \/ \E i \in ApiCallers : ProcessSingleTaskStep(i)
    \/ \E i \in ApiCallers : ProcessSingleTaskReturns(i)
    \/ \E i \in ApiCallers : ProcessSingleTaskRaises(i)

SpecConc == Init /\ [][NextConc]_vars

(***************************************************************************)
(* TestingAgent.execute_tests.  _run_tests is a placeholder that reports   *)
(* success; a test run that fails is one where _run_tests is replaced by   *)
(* a stub, so its answer is drawn from a set that holds the placeholder's. *)
(***************************************************************************)
Codes == {"def add(a, b): return a + b", "def add(a, b): return a - b"}
TestErrors == {"AssertionError", "TypeError", "ValueError"}
TestMessages == {"All tests passed successfully.", "Tests failed."}

\* The return value of the placeholder _run_tests.
PlaceholderResults ==
    [success |-> TRUE, errors |-> None, message |-> "All tests passed successfully."]

RunTestsResults ==
    {PlaceholderResults} \cup
    [success : BOOLEAN,
     errors : {None} \cup {Some(l) : l \in SeqsUpTo(TestErrors, MaxErrors) \ {<<>>}},
     message : TestMessages]

\* Variant of NeedsDebugger: the condition is inverted.
NeedsDebuggerInverted(r) == r.success

\* if not test_results['success']
NeedsDebugger(r) == ~r.success

\* The argument handed to _coordinate_with_debugger.
HookArgument(r) == r.errors

\* execute_tests(code) is called; it awaits _run_tests(code).
ExecuteTests ==
    /\ t_pc \in {"idle", "done"}
    /\ \E code \in Codes : t_code' = code
    /\ t_pc' = "await_run"
    /\ hook_calls' = <<>>
    /\ test_results' = NoTestResults
    /\ t_returned' = NoTestResults
    /\ UNCHANGED <<planVars, chatVars>>

\* _run_tests returns: the debugger hook is called on failure, otherwise
\* the results are returned.
RunTestsReturns ==
    /\ t_pc = "await_run"
    /\ \E r \in RunTestsResults :
          /\ test_results' = r
          /\ IF NeedsDebugger(r)
             THEN /\ hook_calls' = Append(hook_calls, HookArgument(r))
                  /\ t_pc' = "await_hook"
                  /\ t_returned' = t_returned
             ELSE /\ hook_calls' = hook_calls
                  /\ t_pc' = "done"
                  /\ t_returned' = r
    /\ UNCHANGED <<t_code, planVars, chatVars>>

\* _coordinate_with_debugger returns (it does nothing); the results are
\* returned.
HookReturns ==
    /\ t_pc = "await_hook"
    /\ t_pc' = "done"
    /\ t_returned' = test_results
    /\ UNCHANGED <<t_code, test_results, hook_calls, planVars, chatVars>>

NextTester ==
    \/ ExecuteTests
    \/ RunTestsReturns
    \/ HookReturns

SpecTester == Init /\ [][NextTester]_vars

(***************************************************************************)
(* Properties of _plan_and_execute.                                        *)
(***************************************************************************)
Active(i) == pc[i] # "idle"
History(i) == project_state[i].history
Recorded(i) == DOMAIN History(i) \cap DOMAIN calls[i]
Failed(rec) == ~rec.result.success
LastOf(seq) == seq[Len(seq)]

\* After a failed step no later invocation belongs to the same batch, and
\* until the next planning call the coordinator is at the head of the loop.
C1_NoInvocationAfterFailure ==
    \A i \in Callers : Active(i) =>
        \A j \in Recorded(i) : Failed(History(i)[j]) =>
            /\ \A k \in DOMAIN calls[i] :
                  k > j => calls[i][k].batch > calls[i][j].batch
            /\ calls[i][j].batch = planCalls[i] => pc[i] = "loop"

\* What the coordinator does from the head of the loop: it calls the
\* planner, and invokes no agent.
C1_LoopHeadStep ==
    \A i \in Callers : (pc[i] = "loop" /\ pc'[i] # "loop") =>
        /\ pc'[i] = "await_plan"
        /\ planCalls'[i] = planCalls[i] + 1
        /\ calls'[i] = calls[i]

\* C1: when the invocation for step k of a batch returned a TaskResult with
\* success=False, no agent is invoked for a later step of that batch, and
\* the next thing the coordinator does is a new plan_next_steps call.
C1_FailureAbandonsBatch ==
    [](C1_NoInvocationAfterFailure) /\ [][C1_LoopHeadStep]_vars

\* A batch was abandoned after a failed step with steps left, and the
\* planner has been called again.
C1_Witness ==
    \E i \in Callers :
        /\ pc[i] = "await_plan"
        /\ History(i) # <<>>
        /\ Failed(LastOf(History(i)))
        /\ step_idx[i] < Len(plan_result[i].next_steps)
        /\ LastOf(calls[i]).idx = step_idx[i]

\* C2: a Plan Step that names a role which is not a key of the agent pool
\* raises nothing out of _plan_and_execute; it ends as a failed TaskResult
\* recorded in history for that step.
C2_UnknownRoleFailsStep ==
    \A i \in Callers :
        LET steps == plan_result[i].next_steps
        IN  (/\ Active(i)
             /\ step_idx[i] \in DOMAIN steps
             /\ steps[step_idx[i]].agent \notin agent_pool)
            => /\ pc[i] # "raised"
               /\ History(i) # <<>>
               /\ LastOf(History(i)).agent = steps[step_idx[i]].agent
               /\ Failed(LastOf(History(i)))

\* C3: an exception raised by agent.execute_task or by
\* stream.get_final_response becomes the TaskResult of that step, with
\* success=False, output=None and a message that carries str(error); it is
\* recorded, it does not leave _plan_and_execute, and the coordinator goes
\* on to the next planning call.
C3_ModelErrorBecomesFailedResult ==
    \A i \in Callers : Active(i) =>
        \A j \in DOMAIN calls[i] :
            calls[i][j].outcome \in {"raised_execute", "raised_final"} =>
                /\ j \in DOMAIN History(i)
                /\ History(i)[j].result =
                      [success |-> FALSE, output |-> None,
                       message |-> <<"Error during ", calls[i][j].agent,
                                     " task execution: ", calls[i][j].error>>,
                       next_steps |-> None]
                /\ calls[i][j].batch = planCalls[i] => pc[i] = "loop"

\* Both calls have raised in one invocation, and planning went on.
C3_Witness ==
    \E i \in Callers :
        /\ pc[i] = "await_plan"
        /\ \E j \in DOMAIN calls[i] : calls[i][j].outcome = "raised_execute"
        /\ \E j \in DOMAIN calls[i] : calls[i][j].outcome = "raised_final"

\* C4: the loop ends only by the planner reporting completion: when
\* _plan_and_execute is over and no planning call raised, it has returned,
\* and the planning call that reported completion is the last of exactly
\* as many planning calls.
C4_EndsOnlyOnCompletion ==
    \A i \in Callers :
        (pc[i] \in {"returned", "raised"} /\ exc[i].type # "Exception")
        => /\ pc[i] = "returned"
           /\ completeAt[i] >= 1
           /\ planCalls[i] = completeAt[i]

\* The values of status inside one invocation.
C5_StatusValues ==
    \A i \in Callers : Active(i) =>
        /\ project_state[i].status \in {"in_progress", "completed"}
        /\ pc[i] = "returned" => project_state[i].status = "completed"
        /\ project_state[i].status = "completed" => pc[i] = "returned"

\* The changes of status a step of one invocation makes.
C5_StatusStep ==
    \A i \in Callers : (Active(i) /\ pc'[i] # "idle") =>
        /\ project_state'[i].status # project_state[i].status =>
              /\ project_state[i].status = "in_progress"
              /\ project_state'[i].status = "completed"
              /\ pc[i] = "await_plan"
              /\ plan_result'[i].is_complete
        /\ (pc[i] = "await_plan" /\ plan_result'[i].is_complete) =>
              project_state'[i].status = "completed"

\* C5: inside one invocation status is in_progress or completed, it changes
\* only from in_progress to completed, it does so exactly when the planner
\* reports is_complete, and a returned Project State has status completed.
C5_StatusOnlyCompletes == [](C5_StatusValues) /\ [][C5_StatusStep]_vars

\* An invocation returned its state after at least one executed step.
C5_Witness ==
    \E i \in Callers :
        /\ pc[i] = "returned"
        /\ project_state[i].status = "completed"
        /\ History(i) # <<>>

RolesIn(h) == {h[j].agent : j \in DOMAIN h}
LastIndexOf(h, a) ==
    CHOOSE j \in DOMAIN h :
        h[j].agent = a /\ \A k \in DOMAIN h : (k > j => h[k].agent # a)

\* C6: results holds one entry for each role that has been invoked, those
\* of the current cycle included, and the entry of a role is the TaskResult
\* of the role's most recent invocation.
C6_ResultsHoldLatest ==
    \A i \in Callers : Active(i) =>
        LET h == History(i)
            results == project_state[i].results
        IN  /\ DOMAIN results = RolesIn(h)
            /\ \A a \in RolesIn(h) : results[a] = h[LastIndexOf(h, a)].result

\* A cycle is over in which a role was invoked twice with different
\* TaskResults, and results holds the second.
C6_Witness ==
    \E i \in Callers :
        LET h == History(i)
        IN  /\ pc[i] = "loop"
            /\ Len(h) = 2
            /\ h[1].agent = h[2].agent
            /\ h[1].result # h[2].result
            /\ calls[i][1].batch = calls[i][2].batch
            /\ project_state[i].results[h[2].agent] = h[2].result

\* The invocations that have returned or raised.
Completed(cs) == {j \in DOMAIN cs : cs[j].outcome # "pending"}

\* history against the invocations made and against results.
C7_HistoryComplete ==
    \A i \in Callers : Active(i) =>
        LET h == History(i)
            results == project_state[i].results
        IN  /\ Len(h) = Cardinality(Completed(calls[i]))
            /\ \A a \in DOMAIN results :
                  \E j \in DOMAIN h : h[j].agent = a /\ h[j].result = results[a]

\* What a step of one invocation does to history and results.
C7_HistoryStep ==
    \A i \in Callers : (Active(i) /\ pc'[i] # "idle") =>
        LET h == History(i)
            hn == project_state'[i].history
            results == project_state[i].results
            rn == project_state'[i].results
            added == Cardinality(Completed(calls'[i])) - Cardinality(Completed(calls[i]))
        IN  /\ Len(hn) = Len(h) + added
            /\ added \in {0, 1}
            /\ \A j \in DOMAIN h : j \in DOMAIN hn /\ hn[j] = h[j]
            /\ added = 1 =>
                  /\ hn # <<>>
                  /\ LastOf(hn).phase = project_state[i].current_phase
                  /\ LastOf(hn).agent = LastOf(calls[i]).agent
                  /\ LastOf(hn).task = LastOf(calls[i]).task
            /\ \A a \in DOMAIN rn :
                  (a \notin DOMAIN results \/ rn[a] # results[a]) =>
                      /\ added = 1
                      /\ LastOf(hn).agent = a
                      /\ LastOf(hn).result = rn[a]

\* C7: history is append-only and complete: its length is the number of
\* agent invocations that have returned, a step of the invocation leaves
\* the records it holds in place and adds exactly one at the end for an
\* invocation that returns, a result written to results is the result of
\* the record added in the same step, and every entry of results is the
\* result of a record of history.
C7_HistoryAppendOnly == [](C7_HistoryComplete) /\ [][C7_HistoryStep]_vars

\* One batch of one step, then completion: the returned state has one
\* history record.
C7_Witness ==
    \E i \in Callers :
        /\ pc[i] = "returned"
        /\ planCalls[i] = 2
        /\ Len(plan_result[i].next_steps) = 0
        /\ Len(calls[i]) = 1
        /\ Len(History(i)) = 1
        /\ project_state[i].status = "completed"

\* The invocations made for the batch of planning call b.
InBatch(cs, b) == {j \in DOMAIN cs : cs[j].batch = b}

\* C8: the steps of a batch are invoked one at a time and in list order:
\* only the last invocation can be outstanding, and then every earlier one
\* is recorded in history; an invocation is for the step after the one
\* invoked before it in the batch, or for the batch's first step; history
\* lists the invocations in the order they were made; and a batch that is
\* over without a failure has had every step invoked.
C8_SequentialInOrder ==
    \A i \in Callers : Active(i) =>
        LET cs == calls[i]
            h == History(i)
            steps == plan_result[i].next_steps
        IN  /\ \A j \in DOMAIN cs :
                  /\ cs[j].outcome = "pending" =>
                        /\ j = Len(cs)
                        /\ Len(h) = j - 1
                        /\ pc[i] \in {"await_exec", "await_final"}
                  /\ \/ cs[j].idx = 1 /\ (j > 1 => cs[j - 1].batch < cs[j].batch)
                     \/ /\ j > 1
                        /\ cs[j - 1].batch = cs[j].batch
                        /\ cs[j - 1].idx = cs[j].idx - 1
                        /\ cs[j - 1].outcome = "returned"
                  /\ cs[j].batch = planCalls[i] =>
                        /\ cs[j].idx \in DOMAIN steps
                        /\ cs[j].agent = steps[cs[j].idx].agent
                        /\ cs[j].task = steps[cs[j].idx].task
            /\ pc[i] \in {"await_exec", "await_final"} =>
                  cs # <<>> /\ LastOf(cs).outcome = "pending"
            /\ \A j \in DOMAIN h :
                  /\ j \in DOMAIN cs
                  /\ h[j].agent = cs[j].agent
                  /\ h[j].task = cs[j].task
            /\ (pc[i] = "loop" /\ planCalls[i] >= 1) =>
                  \/ Cardinality(InBatch(cs, planCalls[i])) = Len(steps)
                  \/ \E j \in InBatch(cs, planCalls[i]) : cs[j].outcome # "returned"

\* The second step of a batch is being invoked, for another role than the
\* first, whose record is in history.
C8_Witness ==
    \E i \in Callers :
        /\ pc[i] = "await_exec"
        /\ Len(calls[i]) = 2
        /\ calls[i][2].idx = 2
        /\ calls[i][1].agent # calls[i][2].agent
        /\ Len(History(i)) = 1

(***************************************************************************)
(* Properties of chat_loop.                                                *)
(***************************************************************************)
\* C9: chat_loop is left only through the input exit: no exception of a
\* turn, the reading of the input line included, ends it.
C9_OnlyExitEndsSession ==
    chat_pc \in {"exited", "raised"} =>
        chat_pc = "exited" /\ Lower(user_input) = ExitLine

\* Where chat_loop can be, and how it was left.
C9_SessionEnds ==
    /\ chat_pc \in {"prompt", "running", "formatting", "exited", "raised"}
    /\ chat_pc = "exited" => Lower(user_input) = ExitLine /\ printed = "goodbye"
    /\ chat_pc = "raised" => chat_exc = EOFError

\* What chat_loop does when _plan_and_execute has raised, when
\* format_final_response answers or raises, and when it is left.
C9_TurnStep ==
    /\ (chat_pc = "running" /\ pc["chat"] = "raised") =>
          chat_pc' = "prompt" /\ printed' = "error"
    /\ chat_pc = "formatting" =>
          chat_pc' = "prompt" /\ printed' \in {"results", "error"}
    /\ chat_pc' \in {"exited", "raised"} => chat_pc = "prompt"

\* C9 as amended: an exception raised by _plan_and_execute or by
\* format_final_response is caught and reported and the loop prompts for the
\* next turn; chat_loop is left only from the prompt, by an input line that
\* is exit in any letter case or by the exception input() raises.
C9_WorkflowErrorsAreCaught == [](C9_SessionEnds) /\ [][C9_TurnStep]_vars

\* An error of a turn has been reported and the next turn is prompted for.
C9_Witness ==
    /\ chat_pc = "prompt"
    /\ printed = "error"
    /\ invocation["chat"] >= 1

(***************************************************************************)
(* Properties of TestingAgent.execute_tests.                               *)
(***************************************************************************)
Populated(errors) == errors.some /\ errors.val # <<>>

\* C10: when the test run reports success=False with a populated errors
\* list, _coordinate_with_debugger is called once, with that list, before
\* execute_tests returns; when it reports success=True the hook is not
\* called; execute_tests returns what the test run reported.
C10_DebuggerHookOnFailure ==
    /\ t_pc = "await_run" => hook_calls = <<>>
    /\ t_pc \in {"await_hook", "done"} =>
          /\ (~test_results.success /\ Populated(test_results.errors)) =>
                hook_calls = <<test_results.errors>>
          /\ test_results.success => hook_calls = <<>>
    /\ t_pc = "await_hook" => ~test_results.success
    /\ t_pc = "done" => t_returned = test_results

\* execute_tests has returned a failed run with two errors.
C10_Witness ==
    /\ t_pc = "done"
    /\ ~t_returned.success
    /\ t_returned.errors.some
    /\ Len(t_returned.errors.val) = 2
    /\ hook_calls = <<t_returned.errors>>

(***************************************************************************)
(* Properties of one planning/execution cycle.                             *)
(***************************************************************************)
\* C13: a step of a batch is invoked at most once (no retry), and the
\* results of the steps that were invoked stay recorded (no rollback): once
\* an invocation has failed, its failed TaskResult is in history at the
\* invocation's place and, until the role is invoked again, in results, so
\* that the planner is called with a state that shows the failure.
C13_NoRetryNoRollback ==
    \A i \in Callers : Active(i) =>
        LET cs == calls[i]
            h == History(i)
            results == project_state[i].results
        IN  /\ \A j, k \in DOMAIN cs :
                  (cs[j].batch = cs[k].batch /\ cs[j].idx = cs[k].idx) => j = k
            /\ \A j \in DOMAIN cs :
                  cs[j].outcome \in {"raised_execute", "raised_final"} =>
                      /\ j \in DOMAIN h
                      /\ h[j].agent = cs[j].agent
                      /\ Failed(h[j])
                      /\ (\A k \in DOMAIN cs : k > j => cs[k].agent # cs[j].agent) =>
                            /\ cs[j].agent \in DOMAIN results
                            /\ results[cs[j].agent] = h[j].result
            /\ (pc[i] = "await_plan" /\ cs # <<>>
                    /\ LastOf(cs).batch = planCalls[i] - 1
                    /\ LastOf(cs).outcome # "returned") =>
                  /\ h # <<>>
                  /\ Failed(LastOf(h))
                  /\ LastOf(h).agent \in DOMAIN results
                  /\ results[LastOf(h).agent] = LastOf(h).result

\* The second step of a batch failed after the first succeeded, both are
\* recorded, and the planner has been called again.
C13_Witness ==
    \E i \in Callers :
        /\ pc[i] = "await_plan"
        /\ Len(History(i)) = 2
        /\ calls[i][1].batch = calls[i][2].batch
        /\ ~Failed(History(i)[1])
        /\ Failed(History(i)[2])
        /\ project_state[i].results[History(i)[2].agent] = History(i)[2].result

\* What a step of one invocation does to current_phase.
C14_PhaseStep ==
    \A i \in Callers : (Active(i) /\ pc'[i] # "idle") =>
        LET phase == project_state[i].current_phase
            phaseAfter == project_state'[i].current_phase
            batchEnds == pc[i] \in {"await_plan", "await_exec", "await_final"}
                            /\ pc'[i] = "loop"
        IN  /\ phaseAfter # phase => batchEnds
            /\ batchEnds =>
                  /\ ~plan_result'[i].is_complete
                  /\ phaseAfter = plan_result'[i].next_phase
            /\ (pc[i] = "await_plan" /\ plan_result'[i].is_complete) =>
                  phaseAfter = phase
            /\ Len(project_state'[i].history) > Len(History(i)) =>
                  LastOf(project_state'[i].history).phase = phase

\* The phase labels of the history records.
C14_RecordPhases ==
    \A i \in Callers : Active(i) =>
        LET cs == calls[i]
            h == History(i)
        IN  /\ \A j, k \in Recorded(i) :
                  cs[j].batch = cs[k].batch => h[j].phase = h[k].phase
            /\ \A j \in Recorded(i) :
                  /\ cs[j].batch = 1 => h[j].phase = "planning"
                  /\ (cs[j].batch = planCalls[i]
                        /\ pc[i] \in {"await_exec", "await_final", "raised"}) =>
                        h[j].phase = project_state[i].current_phase

\* C14: current_phase changes only when a batch ends, where it becomes the
\* next_phase of the batch's planning call, also after a failed step and
\* for a batch without steps; a planning call that reports completion
\* leaves it as it is; the records of one batch carry one phase label, the
\* one that was current during the batch (planning for the first batch).
C14_PhaseChangesAtBatchEnd == [](C14_RecordPhases) /\ [][C14_PhaseStep]_vars

\* A batch was abandoned after a failed step and the phase is the batch's
\* next_phase, which the batch's record does not carry.
C14_Witness ==
    \E i \in Callers :
        /\ pc[i] = "loop"
        /\ History(i) # <<>>
        /\ Failed(LastOf(History(i)))
        /\ step_idx[i] < Len(plan_result[i].next_steps)
        /\ project_state[i].current_phase = plan_result[i].next_phase
        /\ LastOf(History(i)).phase # project_state[i].current_phase

\* What the step of one invocation that records a Plan Step's result
\* leaves as it is.  The update of current_phase that follows the last
\* step of a batch runs in the same step of the coroutine; it is the only
\* other write.
C15_FrameStep ==
    \A i \in Callers : (Active(i) /\ pc'[i] # "idle") =>
        LET ps == project_state[i]
            pn == project_state'[i]
        IN  /\ pn.context = ps.context
            /\ Len(pn.history) > Len(ps.history) =>
                  LET a == LastOf(pn.history).agent
                  IN  /\ a = plan_result[i].next_steps[step_idx[i]].agent
                      /\ pn.status = ps.status
                      /\ Len(pn.history) = Len(ps.history) + 1
                      /\ \A j \in DOMAIN ps.history : pn.history[j] = ps.history[j]
                      /\ DOMAIN pn.results = DOMAIN ps.results \cup {a}
                      /\ \A b \in DOMAIN ps.results :
                            b # a => pn.results[b] = ps.results[b]
                      /\ pn.results[a] = LastOf(pn.history).result
                      /\ \/ pn.current_phase = ps.current_phase
                         \/ /\ pc'[i] = "loop"
                            /\ pn.current_phase = plan_result[i].next_phase
                      /\ plan_result'[i] = plan_result[i]

\* The context every agent invocation is handed.
C15_ContextEmpty ==
    \A i \in Callers : Active(i) => project_state[i].context = <<>>

\* C15: executing one Plan Step for role a changes results[a] and adds one
\* record at the end of history; status, context, the entries of results
\* for other roles and the earlier history records stay as they are, and
\* current_phase changes only by the update that ends the batch; the
\* coordinator never writes to context, which is the empty mapping for
\* every agent invocation.
C15_StepWritesOnlyItsResult == [](C15_ContextEmpty) /\ [][C15_FrameStep]_vars

\* The second step of a batch is recorded, for another role than the first,
\* whose entry of results is still there.
C15_Witness ==
    \E i \in Callers :
        LET h == History(i)
        IN  /\ Len(h) = 2
            /\ calls[i][1].batch = calls[i][2].batch
            /\ h[1].agent # h[2].agent
            /\ project_state[i].results[h[1].agent] = h[1].result
            /\ project_state[i].results[h[2].agent] = h[2].result
            /\ project_state[i].context = <<>>

(***************************************************************************)
(* Properties of invocations that run side by side.                        *)
(***************************************************************************)
\* _plan_and_execute has begun and has neither returned nor raised.
InFlight(i) == pc[i] \in {"loop", "await_plan", "await_exec", "await_final"}

\* C11: at most one _plan_and_execute invocation is in flight at a time on
\* a DevelopmentChat, the awaits of the planner and the agents included.
C11_OneRequestInFlight ==
    \A i, k \in Callers : (InFlight(i) /\ InFlight(k)) => i = k

\* The Project State of an invocation against the agent invocations that
\* invocation has made.
C12_OwnResults ==
    \A i \in Callers : Active(i) =>
        LET h == History(i)
            cs == calls[i]
            results == project_state[i].results
        IN  /\ \A j \in DOMAIN h :
                  /\ j \in DOMAIN cs
                  /\ cs[j].outcome # "pending"
                  /\ h[j].agent = cs[j].agent
                  /\ h[j].task = cs[j].task
                  /\ h[j].result.success <=> cs[j].outcome = "returned"
                  /\ Failed(h[j]) =>
                        h[j].result.message =
                            <<"Error during ", cs[j].agent,
                              " task execution: ", cs[j].error>>
            /\ \A a \in DOMAIN results :
                  \E j \in DOMAIN h : h[j].agent = a /\ h[j].result = results[a]
            /\ project_state[i].context = <<>>

\* The state an invocation begins with, and what the steps of the other
\* invocations do to the state of one.
C12_PrivateStep ==
    \A i \in Callers :
        /\ (pc[i] = "idle" /\ pc'[i] # "idle") =>
              /\ project_state'[i] =
                    [status |-> "in_progress", current_phase |-> "planning",
                     results |-> <<>>, context |-> <<>>, history |-> <<>>]
              /\ calls'[i] = <<>>
        /\ (/\ pc'[i] = pc[i]
            /\ calls'[i] = calls[i]
            /\ planCalls'[i] = planCalls[i]
            /\ step_idx'[i] = step_idx[i]
            /\ invocation'[i] = invocation[i]) =>
              project_state'[i] = project_state[i]

\* C12: Project State is private to one _plan_and_execute invocation: every
\* invocation begins with status in_progress, phase planning and empty
\* results, context and history, the steps of other invocations leave its
\* state alone, and its results and history hold only TaskResults of the
\* agent invocations it has made itself, for invocations made one after
\* another and for process_single_task invocations whose awaits interleave.
C12_StatePrivateToInvocation == [](C12_OwnResults) /\ [][C12_PrivateStep]_vars

\* Two process_single_task invocations are awaited at once, each with one
\* record of its own in history, one of a success and one of a failure.
C12_Witness ==
    /\ pc["api1"] = "await_exec"
    /\ pc["api2"] = "await_plan"
    /\ Len(History("api1")) = 1
    /\ Len(History("api2")) = 1
    /\ History("api1")[1].result.success
    /\ Failed(History("api2")[1])

=============================================================================
